---- MODULE Spec2Model ----
(***************************************************************************)
(* Verification model of the MM-Mocap camera-fleet scripts.                *)
(*                                                                         *)
(* Spec      : the orchestrator (main.py) running the numbered scripts,    *)
(*             and set_preset_0.py run on its own; every script's fan-out  *)
(*             over a ThreadPoolExecutor is modelled worker by worker.     *)
(* SpecCopy  : media collection and the take / scene clustering policies   *)
(*             of the two 04.* copy scripts.                               *)
(* SpecSync  : 06.gopro_sync.py / gopro_sync.py: alignment by timecode,    *)
(*             export of the synced clips and of the grid preview.         *)
(* SpecGrid  : export_grid of the two sync scripts on its own, from one    *)
(*             source up to more sources than the fixed grid has tiles.    *)
(* SpecSignal: the UDP timecode / stop signal senders.                     *)
(* SpecListener: the zeroconf listener of discover_gopro_devices.          *)
(* SpecRun   : one run of main.py script by script: the devices each       *)
(*             script addresses and the take directory given to 06.        *)
(* SpecTakeCopy: the download loop of 04.copy_last and its file names.     *)
(***************************************************************************)
EXTENDS Integers, Sequences, FiniteSets, TLC

VARIABLES
    mainPc,         \* position of main.py's loop
    idx,            \* index of the prefix main.py's loop is at
    ran,            \* scripts of that prefix the loop is through with
    take_base_path, \* main.py: Take_ directory found for the sync stage
    takeOld,        \* a Take_ directory of an earlier run exists in the output path
    cache,          \* camera_cache.json: whether it exists, and its list of devices
    script,         \* the child process that was started last
    hasArgs,        \* the child was given a positional argument
    phase,          \* position of the child process
    dno,            \* index of the dispatch the child is at
    fleet,          \* devices of the current dispatch, in list order
    w,              \* per position of fleet: the unit of work (future) of that device
    cur,            \* index of the next future whose result the main thread retrieves
    aborted,        \* an exception escaped the dispatch in the script's main thread
    rc,             \* exit code of the child
    created,        \* the child created a Take_ directory
    overlap,        \* a child was started while the previous one was not finished
    \* 04.copy_last_to_pc_and_scene_sorting.py / 04.copy_to_pc_and_scene_sorting.py
    prime_camera_sn,\* serial number of the prime camera (0: not one of the fleet)
    listing,        \* per camera: what its media list request gives
    cw,             \* per camera: the collect_media unit of work
    media_data,     \* the list collect_media appends to
    errlog,         \* cameras whose listing failure was printed
    cpc,            \* position of create_folder_structure_and_copy_files
    cscript,        \* which of the two copy scripts is run
    takes,          \* 04.copy_last: the take folders made
    scenes,         \* 04.copy_to: the scene folders made
    \* 06.gopro_sync.py / gopro_sync.py
    spc,            \* position of main() of the sync script
    nvideos,        \* number of videos in the directory
    starts,         \* compute_alignment: start of each file probed so far, in ticks
    durations,      \* compute_alignment: duration of each file probed so far, in ticks
    unparsed,       \* some file had a timecode or duration that is no number
    trims,          \* the front trim of each file
    common_duration,\* the common overlap
    outputs,        \* export_synced_individuals: the clips made
    rendered,       \* what the renderer was given for each clip it was run on
    outdir,         \* the files in the output directory
    outcome,        \* what main() ended with
    \* export_grid
    gpc,            \* position of export_grid
    gpolicy,        \* fixed 3x3 grid (06.gopro_sync.py) or dynamic grid (gopro_sync.py)
    gn,             \* number of pre-synced files
    cols,
    rows,
    num_inputs,     \* number of inputs of the ffmpeg command, black fillers included
    row_labels,     \* per row built: the inputs stacked in it, left to right
    \* send_timecode / send_stop_signal
    signalPc,       \* position of the sender
    sender,         \* which script sends the signal
    clock,          \* time.time_ns(), in units of the pause between two sends
    payload,        \* the payload built before the loop
    sent,           \* the datagrams handed to the socket, in order
    delivered,      \* per datagram: whether the network delivered it
    \* GoProListener / discover_gopro_devices
    browsePc,       \* the discovery window is open, or discovery has returned
    devices,        \* listener.devices
    announced,      \* the services the browser holds as present
    callbacks,      \* number of callbacks the listener got in this window
    \* one run of main.py, script by script
    runs,           \* per script: how often main.py has run it
    startedTo,      \* devices 02 sent the start command to
    stoppedTo,      \* devices 03 sent the stop command to
    downloaded,     \* devices whose file a 04 script downloaded with success
    deletedOn,      \* devices 05 sent the delete-all command to
    dirs,           \* the Take_ directories in the output path
    syncedOn,       \* the Take_ directory whose videos 06 was run on
    \* the copy loop of 04.copy_last_to_pc_and_scene_sorting.py
    tpc,            \* position of the loop
    take_files,     \* the file selected for each camera
    results,        \* per file gone through: how its download ended
    written         \* the files in the videos folder: path and content

dvars == <<mainPc, idx, ran, take_base_path, takeOld, cache, script, hasArgs,
           phase, dno, fleet, w, cur, aborted, rc, created, overlap>>

cvars == <<prime_camera_sn, listing, cw, media_data, errlog, cpc, cscript,
           takes, scenes>>

svars == <<spc, nvideos, starts, durations, unparsed, trims, common_duration,
           outputs, rendered, outdir, outcome>>

gvars == <<gpc, gpolicy, gn, cols, rows, num_inputs, row_labels>>

uvars == <<signalPc, sender, clock, payload, sent, delivered>>

zvars == <<browsePc, devices, announced, callbacks>>

rvars == <<runs, startedTo, stoppedTo, downloaded, deletedOn, dirs, syncedOn>>

kvars == <<tpc, take_files, results, written>>

xvars == <<uvars, zvars, rvars, kvars>>

vars == <<dvars, cvars, svars, gvars, xvars>>

-----------------------------------------------------------------------------
(* Bounds *)
NumDevices == 2

Devices == 1..NumDevices

\* device lists a discovery (or the cache) can hand to a dispatch
Fleets ==
    {s \in UNION {[1..n -> Devices] : n \in 0..NumDevices} :
        \A i, j \in DOMAIN s : i # j => s[i] # s[j]}

-----------------------------------------------------------------------------
(* The scripts and their fan-outs *)

\* find_numbered_scripts: the NN.*.py files sorted by their prefix; the sort
\* is stable, so scripts of one prefix run in the order of Path.iterdir(),
\* which is not specified
NumberedScripts ==
    <<{"01"}, {"02"}, {"03", "03all"}, {"04last", "04scene"}, {"05"}, {"06"},
      {"99"}>>

Prefix(s) ==
    CASE s = "01" -> 1
      [] s = "02" -> 2
      [] s \in {"03", "03all"} -> 3
      [] s \in {"04last", "04scene"} -> 4
      [] s = "05" -> 5
      [] s = "06" -> 6
      [] s = "99" -> 99
      [] OTHER -> 0

\* the fan-outs a script performs, in order
ScriptDispatches(s) ==
    CASE s = "01" -> <<"usb">>
      [] s = "02" -> <<"timesync", "start">>
      [] s = "03" -> <<"stop">>
      [] s = "03all" -> <<"stopall">>
      [] s \in {"04last", "04scene"} -> <<"collect">>
      [] s = "05" -> <<"format">>
      [] s = "preset" -> <<"preset">>
      [] OTHER -> <<>>

\* where the device list of a fan-out comes from
UsesCache(d) == d \in {"stop", "stopall"}

\* how the main thread of the script treats the futures:
\*   "list_map"  list(executor.map(f, devices))
\*   "map"       executor.map(f, devices), iterator never consumed
\*   "submit"    [executor.submit(f, d) ...] then future.result() for each
Style(d) ==
    CASE d \in {"usb", "timesync"} -> "list_map"
      [] d \in {"start", "stopall"} -> "submit"
      [] OTHER -> "map"

\* requests.get(..., timeout=...) is given a timeout
HasTimeout(d) == d \in {"usb", "timesync", "start"}

\* number of HTTP calls one unit of work makes (reset_and_enable_usb_control: 2)
NumCalls(d) == IF d = "usb" THEN 2 ELSE 1

\* what a device can do with one call
Responses(d) ==
    {"ok", "non200", "connerr", "silent"}
        \cup (IF d = "collect" THEN {"badentry"} ELSE {})

\* the exception a response raises in the worker ("none": no exception)
Raises(r) ==
    CASE r = "connerr" -> "RequestException"
      [] r = "silent" -> "Timeout"
      [] r = "badentry" -> "ValueError"
      [] OTHER -> "none"

\* variant: every worker catches requests.Timeout only
CatchesTimeoutOnly(d, exc) == d # "preset" /\ exc = "Timeout"

\* the except clauses of the worker functions
Catches(d, exc) ==
    CASE d \in {"start", "stop", "stopall"} -> TRUE
      [] d \in {"usb", "timesync", "collect", "format"} ->
            exc \in {"Timeout", "RequestException"}
      [] OTHER -> FALSE

Dispatch == ScriptDispatches(script)[dno]

InPool == phase = "pool"

Terminal(i) == w[i].st \in {"done", "raised", "cancelled"}

\* a call without timeout to a device that never answers blocks for ever
Hung(i) ==
    /\ w[i].st = "running"
    /\ w[i].resp = "silent"
    /\ ~HasTimeout(Dispatch)

NewWorker == [st |-> "queued", call |-> 0, resp |-> "none", log |-> <<>>]

-----------------------------------------------------------------------------
(* The child process: one script *)

\* the script starts; 04.* without its positional argument prints the usage
\* and exits 1, 06 has no fan-out
ScriptStart ==
    /\ phase = "start"
    /\ IF script \in {"04last", "04scene"} /\ ~hasArgs
       THEN phase' = "exited" /\ rc' = 1 /\ dno' = dno
       ELSE IF ScriptDispatches(script) = <<>>
       THEN phase' = "exited" /\ rc' = 0 /\ dno' = dno
       ELSE phase' = "devices" /\ rc' = rc /\ dno' = 1
    /\ UNCHANGED <<cvars, svars, gvars, xvars>>
    /\ UNCHANGED <<mainPc, idx, ran, take_base_path, takeOld, cache, script,
                   hasArgs, fleet, w, cur, aborted, created, overlap>>

\* variant: a script that gives up with exit code 1 when it finds no device
SkipDispatchFatal == phase' = "exited" /\ rc' = 1 /\ dno' = dno

\* "No GoPro devices found.": the function returns without a fan-out
SkipDispatch ==
    IF dno < Len(ScriptDispatches(script))
    THEN phase' = "devices" /\ rc' = rc /\ dno' = dno + 1
    ELSE phase' = "exited" /\ rc' = 0 /\ dno' = dno

\* discover_gopro_devices(): any list of devices; 01 writes a non-empty list
\* to the cache; an empty list skips the fan-out
Discover ==
    /\ phase = "devices"
    /\ ~UsesCache(Dispatch)
    /\ \E f \in Fleets :
        /\ cache' = IF script = "01" /\ f # <<>>
                    THEN [exists |-> TRUE, devices |-> f]
                    ELSE cache
        /\ IF f = <<>>
           THEN /\ SkipDispatch
                /\ UNCHANGED <<fleet, w, cur>>
           ELSE /\ fleet' = f
                /\ w' = [i \in 1..Len(f) |-> NewWorker]
                /\ cur' = 1
                /\ phase' = "pool"
                /\ UNCHANGED <<rc, dno>>
    /\ aborted' = FALSE
    /\ UNCHANGED <<cvars, svars, gvars, xvars>>
    /\ UNCHANGED <<mainPc, idx, ran, take_base_path, takeOld, script, hasArgs,
                   created, overlap>>

\* json.load(camera_cache.json); FileNotFoundError: exit()
LoadCache ==
    /\ phase = "devices"
    /\ UsesCache(Dispatch)
    /\ IF ~cache.exists
       THEN /\ phase' = "exited"
            /\ rc' = 0
            /\ UNCHANGED <<fleet, w, cur>>
       ELSE /\ fleet' = cache.devices
            /\ w' = [i \in 1..Len(cache.devices) |-> NewWorker]
            /\ cur' = 1
            /\ phase' = "pool"
            /\ rc' = rc
    /\ aborted' = FALSE
    /\ UNCHANGED <<cvars, svars, gvars, xvars>>
    /\ UNCHANGED <<mainPc, idx, ran, take_base_path, takeOld, cache, script,
                   hasArgs, dno, created, overlap>>

\* a pool thread takes the unit of work and sends a request; r is what the
\* device will do with it
IssueCall(i) ==
    /\ InPool
    /\ \/ w[i].st = "queued"
       \/ w[i].st = "running" /\ w[i].resp = "none"
    /\ \E r \in Responses(Dispatch) :
        w' = [w EXCEPT ![i].st = "running", ![i].call = @ + 1, ![i].resp = r]
    /\ UNCHANGED <<cvars, svars, gvars, xvars>>
    /\ UNCHANGED <<mainPc, idx, ran, take_base_path, takeOld, cache, script,
                   hasArgs, phase, dno, fleet, cur, aborted, rc, created, overlap>>

\* variant: a worker that sends its last request once more when it failed
AfterCallRetryOnce(d, wk) ==
    LET exc == Raises(wk.resp)
        line == IF wk.resp = "ok" THEN "success" ELSE "error"
        more == \/ wk.call < NumCalls(d)
                \/ wk.call = NumCalls(d) /\ wk.resp # "ok"
    IN  IF exc # "none" /\ ~Catches(d, exc)
        THEN [wk EXCEPT !.st = "raised"]
        ELSE [wk EXCEPT !.st = IF more THEN "running" ELSE "done",
                        !.resp = IF more THEN "none" ELSE @,
                        !.log = Append(@, line)]

\* the worker after its request came back (or timed out)
AfterCall(d, wk) ==
    LET exc == Raises(wk.resp)
        line == IF wk.resp = "ok" THEN "success" ELSE "error"
        more == wk.call < NumCalls(d)
    IN  IF exc # "none" /\ ~Catches(d, exc)
        THEN [wk EXCEPT !.st = "raised"]
        ELSE [wk EXCEPT !.st = IF more THEN "running" ELSE "done",
                        !.resp = IF more THEN "none" ELSE @,
                        !.log = Append(@, line)]

\* the request of a worker ends: response, connection error or timeout
CompleteCall(i) ==
    /\ InPool
    /\ w[i].st = "running"
    /\ w[i].resp # "none"
    /\ ~Hung(i)
    /\ w' = [w EXCEPT ![i] = AfterCall(Dispatch, w[i])]
    /\ UNCHANGED <<cvars, svars, gvars, xvars>>
    /\ UNCHANGED <<mainPc, idx, ran, take_base_path, takeOld, cache, script,
                   hasArgs, phase, dno, fleet, cur, aborted, rc, created, overlap>>

\* the main thread takes the result of the next future (future.result(), or
\* the iteration of list(executor.map)); an exception of the worker is
\* re-raised, and list(executor.map) then cancels the futures not yet started
Retrieve ==
    /\ InPool
    /\ Style(Dispatch) \in {"submit", "list_map"}
    /\ ~aborted
    /\ cur <= Len(fleet)
    /\ Terminal(cur)
    /\ IF w[cur].st = "raised"
       THEN /\ aborted' = TRUE
            /\ cur' = cur
            /\ w' = IF Style(Dispatch) = "list_map"
                    THEN [i \in DOMAIN w |->
                            IF w[i].st = "queued"
                            THEN [w[i] EXCEPT !.st = "cancelled"]
                            ELSE w[i]]
                    ELSE w
       ELSE /\ aborted' = aborted
            /\ cur' = cur + 1
            /\ w' = w
    /\ UNCHANGED <<cvars, svars, gvars, xvars>>
    /\ UNCHANGED <<mainPc, idx, ran, take_base_path, takeOld, cache, script,
                   hasArgs, phase, dno, fleet, rc, created, overlap>>

\* the main thread has nothing left to retrieve
MainThreadAtExit ==
    \/ Style(Dispatch) = "map"
    \/ aborted
    \/ cur > Len(fleet)

\* variant: shutdown(wait=False)
PoolNotJoined == TRUE

\* ThreadPoolExecutor.__exit__: shutdown(wait=True) joins every worker
PoolDrained == \A i \in DOMAIN w : Terminal(i)

\* the with block of the fan-out is left
PoolExit ==
    /\ InPool
    /\ MainThreadAtExit
    /\ PoolDrained
    /\ phase' = "returned"
    /\ UNCHANGED <<cvars, svars, gvars, xvars>>
    /\ UNCHANGED <<mainPc, idx, ran, take_base_path, takeOld, cache, script,
                   hasArgs, dno, fleet, w, cur, aborted, rc, created, overlap>>

\* the script goes on after the fan-out
AfterDispatch ==
    /\ phase = "returned"
    /\ IF aborted
       THEN phase' = "exited" /\ rc' = 1 /\ dno' = dno
       ELSE IF dno < Len(ScriptDispatches(script))
       THEN phase' = "devices" /\ rc' = rc /\ dno' = dno + 1
       ELSE IF script \in {"04last", "04scene"}
       THEN phase' = "copy" /\ rc' = rc /\ dno' = dno
       ELSE phase' = "exited" /\ rc' = 0 /\ dno' = dno
    /\ UNCHANGED <<cvars, svars, gvars, xvars>>
    /\ UNCHANGED <<mainPc, idx, ran, take_base_path, takeOld, cache, script,
                   hasArgs, fleet, w, cur, aborted, created, overlap>>

\* some device listing was read
SomeListing == \E i \in DOMAIN w : w[i].st = "done" /\ w[i].resp = "ok"

\* 04.*: cluster the collected records and download the files; without any
\* record nothing is created; a local I/O error ends the script with code 1
CopyFiles ==
    /\ phase = "copy"
    /\ phase' = "exited"
    /\ \/ rc' = 0 /\ created' = created
       \/ SomeListing /\ rc' = 0 /\ created' = (created \/ script = "04last")
       \/ SomeListing /\ rc' = 1
                      /\ \E c \in {FALSE, script = "04last"} : created' = (created \/ c)
    /\ UNCHANGED <<cvars, svars, gvars, xvars>>
    /\ UNCHANGED <<mainPc, idx, ran, take_base_path, takeOld, cache, script,
                   hasArgs, dno, fleet, w, cur, aborted, overlap>>

-----------------------------------------------------------------------------
(* The orchestrator: main.py *)

\* a unit of work of the running child is queued or running
UnitsInFlight == phase = "pool" /\ \E i \in DOMAIN w : ~Terminal(i)

\* run_script: subprocess.run starts the child ...
Spawn(s, a) ==
    /\ script' = s
    /\ hasArgs' = a
    /\ phase' = "start"
    /\ dno' = 0
    /\ fleet' = <<>>
    /\ w' = <<>>
    /\ cur' = 1
    /\ aborted' = FALSE
    /\ rc' = 0
    /\ overlap' = (overlap \/ UnitsInFlight)

\* variant: subprocess.Popen without wait
PopenReturns == TRUE

\* ... and returns when the child has terminated
SubprocessRunReturns == phase = "exited"

\* the loop of main.py is at script s, whose prefix is one of p
AtScript(s, p) ==
    /\ mainPc = "loop"
    /\ idx <= Len(NumberedScripts)
    /\ s \in NumberedScripts[idx] \ ran
    /\ Prefix(s) \in p

\* the loop goes on to the script after s
Advance(s) ==
    IF ran \cup {s} = NumberedScripts[idx]
    THEN idx' = idx + 1 /\ ran' = {}
    ELSE idx' = idx /\ ran' = ran \cup {s}

\* 02: the recorder is started
MainRun02 ==
    /\ \E s \in {"02"} :
        /\ AtScript(s, {2})
        /\ Spawn(s, FALSE)
    /\ mainPc' = "wait02"
    /\ UNCHANGED <<cvars, svars, gvars, xvars>>
    /\ UNCHANGED <<idx, ran, take_base_path, takeOld, cache, created>>

\* 02: time.sleep(duration) after the recorder has returned
MainSleep ==
    /\ mainPc = "wait02"
    /\ SubprocessRunReturns
    /\ mainPc' = "slept"
    /\ UNCHANGED <<cvars, svars, gvars, xvars>>
    /\ UNCHANGED <<idx, ran, take_base_path, takeOld, cache, script, hasArgs,
                   phase, dno, fleet, w, cur, aborted, rc, created, overlap>>

\* "Default: just run": every script no branch of which ends in continue,
\* the recorder after its sleep included
MainDefaultRun ==
    /\ \E s \in {"01", "02", "03", "03all", "05"} :
        /\ \/ AtScript(s, {1, 3, 5})
           \/ mainPc = "slept" /\ s = script
        /\ Spawn(s, FALSE)
    /\ mainPc' = "waitdef"
    /\ UNCHANGED <<cvars, svars, gvars, xvars>>
    /\ UNCHANGED <<idx, ran, take_base_path, takeOld, cache, created>>

MainDefaultDone ==
    /\ mainPc = "waitdef"
    /\ SubprocessRunReturns
    /\ mainPc' = "loop"
    /\ Advance(script)
    /\ UNCHANGED <<cvars, svars, gvars, xvars>>
    /\ UNCHANGED <<take_base_path, takeOld, cache, script, hasArgs, phase,
                   dno, fleet, w, cur, aborted, rc, created, overlap>>

\* 04: try_with_variants, first with the output path
MainRun04 ==
    /\ \E s \in {"04last", "04scene"} :
        /\ AtScript(s, {4})
        /\ Spawn(s, TRUE)
    /\ created' = FALSE
    /\ mainPc' = "wait04a"
    /\ UNCHANGED <<cvars, svars, gvars, xvars>>
    /\ UNCHANGED <<idx, ran, take_base_path, takeOld, cache>>

\* main.py: the Take_ directory that was not there before the copy script
DetectTake == IF created THEN "new" ELSE take_base_path

\* 04: code 0 ends try_with_variants, any other code runs the script again
\* without argument
Main04First ==
    /\ mainPc = "wait04a"
    /\ SubprocessRunReturns
    /\ IF rc = 0
       THEN /\ mainPc' = "loop"
            /\ Advance(script)
            /\ take_base_path' = DetectTake
            /\ UNCHANGED <<script, hasArgs, phase, dno, fleet, w, cur, aborted,
                           rc, overlap>>
       ELSE /\ Spawn(script, FALSE)
            /\ mainPc' = "wait04b"
            /\ UNCHANGED <<idx, ran, take_base_path>>
    /\ UNCHANGED <<cvars, svars, gvars, xvars>>
    /\ UNCHANGED <<takeOld, cache, created>>

Main04Second ==
    /\ mainPc = "wait04b"
    /\ SubprocessRunReturns
    /\ mainPc' = "loop"
    /\ Advance(script)
    /\ take_base_path' = DetectTake
    /\ UNCHANGED <<cvars, svars, gvars, xvars>>
    /\ UNCHANGED <<takeOld, cache, script, hasArgs, phase, dno, fleet, w, cur,
                   aborted, rc, created, overlap>>

\* 06: the Take_ directory of this run, else the latest one of the output path
SyncTarget ==
    IF take_base_path = "none" /\ takeOld THEN "old" ELSE take_base_path

MainRun06 ==
    /\ \E s \in {"06"} :
        /\ AtScript(s, {6})
        /\ Spawn(s, TRUE)
    /\ SyncTarget # "none"
    /\ take_base_path' = SyncTarget
    /\ mainPc' = "wait06"
    /\ UNCHANGED <<cvars, svars, gvars, xvars>>
    /\ UNCHANGED <<idx, ran, takeOld, cache, created>>

Main06Done ==
    /\ mainPc = "wait06"
    /\ SubprocessRunReturns
    /\ mainPc' = "loop"
    /\ Advance(script)
    /\ UNCHANGED <<cvars, svars, gvars, xvars>>
    /\ UNCHANGED <<take_base_path, takeOld, cache, script, hasArgs, phase,
                   dno, fleet, w, cur, aborted, rc, created, overlap>>

\* 06 without a Take_ directory and 99 are skipped
MainSkip ==
    /\ \E s \in {"06", "99"} :
        /\ \/ AtScript(s, {6}) /\ SyncTarget = "none"
           \/ AtScript(s, {99})
        /\ Advance(s)
    /\ UNCHANGED <<cvars, svars, gvars, xvars>>
    /\ UNCHANGED <<mainPc, take_base_path, takeOld, cache, script, hasArgs, phase,
                   dno, fleet, w, cur, aborted, rc, created, overlap>>

MainFinish ==
    /\ mainPc = "loop"
    /\ idx > Len(NumberedScripts)
    /\ mainPc' = "done"
    /\ UNCHANGED <<cvars, svars, gvars, xvars>>
    /\ UNCHANGED <<idx, ran, take_base_path, takeOld, cache, script, hasArgs,
                   phase, dno, fleet, w, cur, aborted, rc, created, overlap>>

-----------------------------------------------------------------------------
NoCache == [exists |-> FALSE, devices |-> <<>>]

InitChild(s, p) ==
    /\ script = s
    /\ hasArgs = FALSE
    /\ phase = p
    /\ dno = 0
    /\ fleet = <<>>
    /\ w = <<>>
    /\ cur = 1
    /\ aborted = FALSE
    /\ rc = 0
    /\ created = FALSE
    /\ overlap = FALSE

\* main.py before its loop, with whatever an earlier run left behind
InitMain ==
    /\ mainPc = "loop"
    /\ idx = 1
    /\ ran = {}
    /\ take_base_path = "none"
    /\ takeOld \in BOOLEAN
    /\ cache \in {NoCache} \cup {[exists |-> TRUE, devices |-> f] : f \in Fleets \ {<<>>}}
    /\ InitChild("none", "none")

\* python set_preset_0.py
InitPreset ==
    /\ mainPc = "standalone"
    /\ idx = 1
    /\ ran = {}
    /\ take_base_path = "none"
    /\ takeOld = FALSE
    /\ cache = NoCache
    /\ InitChild("preset", "start")

\* the copy model at rest
CopyIdle ==
    /\ prime_camera_sn = 0
    /\ listing = <<>>
    /\ cw = <<>>
    /\ media_data = <<>>
    /\ errlog = {}
    /\ cpc = "idle"
    /\ cscript = "none"
    /\ takes = <<>>
    /\ scenes = <<>>

\* the sync model at rest
SyncIdle ==
    /\ spc = "idle"
    /\ nvideos = 0
    /\ starts = <<>>
    /\ durations = <<>>
    /\ unparsed = FALSE
    /\ trims = <<>>
    /\ common_duration = 0
    /\ outputs = <<>>
    /\ rendered = <<>>
    /\ outdir = {}
    /\ outcome = "none"

\* export_grid not entered
GridIdle ==
    /\ gpc = "idle"
    /\ gn = 0
    /\ cols = 0
    /\ rows = 0
    /\ num_inputs = 0
    /\ row_labels = <<>>

\* the sync and grid models at rest
SyncGridIdle ==
    /\ SyncIdle
    /\ gpolicy = "none"
    /\ GridIdle

\* no signal is being sent
SignalIdle ==
    /\ signalPc = "idle"
    /\ sender = "none"
    /\ clock = 0
    /\ payload = <<>>
    /\ sent = <<>>
    /\ delivered = <<>>

\* no discovery window is open
ListenerIdle ==
    /\ browsePc = "idle"
    /\ devices = <<>>
    /\ announced = {}
    /\ callbacks = 0

\* no run is followed script by script
RunIdle ==
    /\ runs = <<>>
    /\ startedTo = {}
    /\ stoppedTo = {}
    /\ downloaded = {}
    /\ deletedOn = {}
    /\ dirs = {}
    /\ syncedOn = "none"

\* the copy loop is not entered
TakeCopyIdle ==
    /\ tpc = "idle"
    /\ take_files = <<>>
    /\ results = <<>>
    /\ written = {}

\* the models of the single functions at rest
ExtrasIdle ==
    /\ SignalIdle
    /\ ListenerIdle
    /\ RunIdle
    /\ TakeCopyIdle

Init == (InitMain \/ InitPreset) /\ CopyIdle /\ SyncGridIdle /\ ExtrasIdle

ChildNext ==
    \/ ScriptStart
    \/ Discover
    \/ LoadCache
    \/ \E i \in DOMAIN w : IssueCall(i)
    \/ \E i \in DOMAIN w : CompleteCall(i)
    \/ Retrieve
    \/ PoolExit
    \/ AfterDispatch
    \/ CopyFiles

MainNext ==
    \/ MainRun02
    \/ MainSleep
    \/ MainDefaultRun
    \/ MainDefaultDone
    \/ MainRun04
    \/ Main04First
    \/ Main04Second
    \/ MainRun06
    \/ Main06Done
    \/ MainSkip
    \/ MainFinish

Next == ChildNext \/ MainNext

Spec == Init /\ [][Next]_vars

-----------------------------------------------------------------------------
(* Media collection and clustering: the two 04.* copy scripts *)

\* cameras of the fleet, and files all cameras together report in one run
NumCams == 2
MaxFiles == 3

\* the "<= 5" of both clustering loops, in seconds
Tolerance == 5

Cams == 1..NumCams

\* creation times ("cre", integer epoch seconds) a camera can report
Times == {0, Tolerance, Tolerance + 1}

\* stands for a "cre" that int() rejects (absent or not a number)
Unparsable == -1

\* the "fs" entries of a media list of at most n files: the "cre" of each
\* file, in list order
Listings(n) == UNION {[1..k -> Times \cup {Unparsable}] : k \in 0..n}

\* what a camera can do with GET /gopro/media/list
ListingResponses(n) ==
    {[kind |-> "ok", fs |-> l] : l \in Listings(n)}
        \cup {[kind |-> k, fs |-> <<>>] : k \in {"non200", "connerr"}}

RECURSIVE SumLen(_, _)
SumLen(f, S) ==
    IF S = {} THEN 0
    ELSE LET c == CHOOSE x \in S : TRUE
         IN  Len(f[c].fs) + SumLen(f, S \ {c})

Abs(x) == IF x < 0 THEN -x ELSE x

SetMax(S) == CHOOSE x \in S : \A y \in S : y <= x

\* strftime of the record's datetime, to the second
Strftime(t) == <<"stamp", t>>

\* the dictionary element collect_media appends for the k-th file of camera c
FileMetadata(c, k, t) == [serial_number |-> c, name |-> k, time |-> t]

RECURSIVE InsertDesc(_, _)
InsertDesc(s, f) ==
    IF s = <<>> THEN <<f>>
    ELSE IF Head(s).time >= f.time
         THEN <<Head(s)>> \o InsertDesc(Tail(s), f)
         ELSE <<f>> \o s

\* list.sort(key=time, reverse=True): stable, newest first
RECURSIVE SortDesc(_)
SortDesc(s) ==
    IF s = <<>> THEN <<>>
    ELSE InsertDesc(SortDesc(SubSeq(s, 1, Len(s) - 1)), s[Len(s)])

RECURSIVE InsertAsc(_, _)
InsertAsc(s, f) ==
    IF s = <<>> THEN <<f>>
    ELSE IF Head(s).time <= f.time
         THEN <<Head(s)>> \o InsertAsc(Tail(s), f)
         ELSE <<f>> \o s

\* variant: media_data is walked in the order the workers appended to it
Unsorted(s) == s

\* list.sort(key=time): stable, oldest first
RECURSIVE SortAsc(_)
SortAsc(s) ==
    IF s = <<>> THEN <<>>
    ELSE InsertAsc(SortAsc(SubSeq(s, 1, Len(s) - 1)), s[Len(s)])

\* variant: one key per record, without the "if serial not in" test
CameraOrderPerRecord(md) == [i \in DOMAIN md |-> md[i].serial_number]

\* the keys of files_by_camera in insertion order: the serial numbers in the
\* order of their first record in media_data
RECURSIVE CameraOrder(_)
CameraOrder(md) ==
    IF md = <<>> THEN <<>>
    ELSE LET rest == CameraOrder(SubSeq(md, 1, Len(md) - 1))
             last == md[Len(md)].serial_number
         IN  IF \E i \in DOMAIN rest : rest[i] = last
             THEN rest
             ELSE Append(rest, last)

\* files_by_camera[serial] after the per-camera sort
FilesByCamera(md, c) ==
    SortDesc(SelectSeq(md, LAMBDA f : f.serial_number = c))

\* latest_time: the newest first element over the cameras
LatestTime(md) ==
    SetMax({FilesByCamera(md, md[i].serial_number)[1].time : i \in DOMAIN md})

\* variant: "time_diff < 5"
RECURSIVE ClosestFileStrict(_, _, _, _)
ClosestFileStrict(files, latest, best, i) ==
    IF i > Len(files) THEN best
    ELSE LET d == Abs(files[i].time - latest)
         IN  IF d < Tolerance /\ (best = <<>> \/ d < Abs(best[1].time - latest))
             THEN ClosestFileStrict(files, latest, <<files[i]>>, i + 1)
             ELSE ClosestFileStrict(files, latest, best, i + 1)

\* variant: the closest file is taken whatever its distance
RECURSIVE ClosestFileAnyDistance(_, _, _, _)
ClosestFileAnyDistance(files, latest, best, i) ==
    IF i > Len(files) THEN best
    ELSE LET d == Abs(files[i].time - latest)
         IN  IF best = <<>> \/ d < Abs(best[1].time - latest)
             THEN ClosestFileAnyDistance(files, latest, <<files[i]>>, i + 1)
             ELSE ClosestFileAnyDistance(files, latest, best, i + 1)

\* the loop over one camera's files: closest_file (<<>> for None) after the
\* files from position i on, min_time_diff being the distance of best
RECURSIVE ClosestFile(_, _, _, _)
ClosestFile(files, latest, best, i) ==
    IF i > Len(files) THEN best
    ELSE LET d == Abs(files[i].time - latest)
         IN  IF d <= Tolerance /\ (best = <<>> \/ d < Abs(best[1].time - latest))
             THEN ClosestFile(files, latest, <<files[i]>>, i + 1)
             ELSE ClosestFile(files, latest, best, i + 1)

\* take_files: per camera, in the order of files_by_camera, the closest file
\* or else the camera's newest file
TakeFiles(md) ==
    LET order == CameraOrder(md)
        latest == LatestTime(md)
    IN  [k \in 1..Len(order) |->
            LET files == FilesByCamera(md, order[k])
                closest == ClosestFile(files, latest, <<>>, 1)
            IN  IF closest = <<>> THEN files[1] ELSE closest[1]]

\* the cameras for which the "no file within 5 seconds" warning is printed
Substituted(md) ==
    {c \in {md[i].serial_number : i \in DOMAIN md} :
        ClosestFile(FilesByCamera(md, c), LatestTime(md), <<>>, 1) = <<>>}

\* next((f for f in files if f["serial_number"] == prime_camera_sn), files[0])
PrimeFile(files, prime) ==
    IF \E i \in DOMAIN files : files[i].serial_number = prime
    THEN files[CHOOSE i \in DOMAIN files :
                  /\ files[i].serial_number = prime
                  /\ \A j \in 1..(i - 1) : files[j].serial_number # prime]
    ELSE files[1]

\* 04.copy_last: the Take_ folders made from media_data
TakePolicy(md, prime) ==
    IF md = <<>> THEN <<>>
    ELSE <<[files |-> TakeFiles(md),
            name |-> Strftime(PrimeFile(TakeFiles(md), prime).time),
            substituted |-> Substituted(md)]>>

\* variant: a scene is compared by its last file, scene[-1]
AddToScenesLastMember(sc, f) ==
    IF \E k \in DOMAIN sc : Abs(f.time - sc[k][Len(sc[k])].time) <= Tolerance
    THEN LET k == CHOOSE k \in DOMAIN sc :
                    /\ Abs(f.time - sc[k][Len(sc[k])].time) <= Tolerance
                    /\ \A j \in 1..(k - 1) :
                          Abs(f.time - sc[j][Len(sc[j])].time) > Tolerance
         IN  [sc EXCEPT ![k] = Append(@, f)]
    ELSE Append(sc, <<f>>)

\* variant: "< 5"
AddToScenesStrict(sc, f) ==
    IF \E k \in DOMAIN sc : Abs(f.time - sc[k][1].time) < Tolerance
    THEN LET k == CHOOSE k \in DOMAIN sc :
                    /\ Abs(f.time - sc[k][1].time) < Tolerance
                    /\ \A j \in 1..(k - 1) :
                          Abs(f.time - sc[j][1].time) >= Tolerance
         IN  [sc EXCEPT ![k] = Append(@, f)]
    ELSE Append(sc, <<f>>)

\* variant: added_to_scene is never set, so a file that was put into a scene
\* opens a scene of its own as well
AddToScenesFlagNotSet(sc, f) ==
    IF \E k \in DOMAIN sc : Abs(f.time - sc[k][1].time) <= Tolerance
    THEN LET k == CHOOSE k \in DOMAIN sc :
                    /\ Abs(f.time - sc[k][1].time) <= Tolerance
                    /\ \A j \in 1..(k - 1) :
                          Abs(f.time - sc[j][1].time) > Tolerance
         IN  Append([sc EXCEPT ![k] = Append(@, f)], <<f>>)
    ELSE Append(sc, <<f>>)

\* the scene loop for one file: the first scene whose first file is within
\* the tolerance takes it, else a new scene is opened
AddToScenes(sc, f) ==
    IF \E k \in DOMAIN sc : Abs(f.time - sc[k][1].time) <= Tolerance
    THEN LET k == CHOOSE k \in DOMAIN sc :
                    /\ Abs(f.time - sc[k][1].time) <= Tolerance
                    /\ \A j \in 1..(k - 1) :
                          Abs(f.time - sc[j][1].time) > Tolerance
         IN  [sc EXCEPT ![k] = Append(@, f)]
    ELSE Append(sc, <<f>>)

RECURSIVE SceneWalk(_)
SceneWalk(sorted) ==
    IF sorted = <<>> THEN <<>>
    ELSE AddToScenes(SceneWalk(SubSeq(sorted, 1, Len(sorted) - 1)),
                     sorted[Len(sorted)])

\* 04.copy_to: the scene folders made from media_data
ScenePolicy(md, prime) ==
    LET sc == SceneWalk(SortAsc(md))
    IN  [i \in 1..Len(sc) |->
            [files |-> sc[i],
             name |-> <<i, Strftime(PrimeFile(sc[i], prime).time)>>]]

\* the dispatch model at rest
DispatchIdle ==
    /\ mainPc = "idle"
    /\ idx = 1
    /\ ran = {}
    /\ take_base_path = "none"
    /\ takeOld = FALSE
    /\ cache = NoCache
    /\ InitChild("none", "none")

\* the answer of a camera that was not asked yet
NotAsked == [kind |-> "none", fs |-> <<>>]

\* the copy script after discovery: every camera of the fleet (in discovery
\* order 1, 2, ..) has a unit of work queued
InitCopy ==
    /\ prime_camera_sn \in {0} \cup Cams
    /\ listing = [c \in Cams |-> NotAsked]
    /\ cw = [c \in Cams |-> [st |-> "queued", pos |-> 0]]
    /\ media_data = <<>>
    /\ errlog = {}
    /\ cpc = "collect"
    /\ cscript = "none"
    /\ takes = <<>>
    /\ scenes = <<>>
    /\ DispatchIdle
    /\ ExtrasIdle
    /\ SyncGridIdle

\* collect_media: the media list request of camera c, the camera's answer r,
\* and what follows it up to the first file
CollectRequest(c) ==
    /\ cpc = "collect"
    /\ cw[c].st = "queued"
    /\ \E r \in ListingResponses(MaxFiles - SumLen(listing, Cams)) :
        /\ listing' = [listing EXCEPT ![c] = r]
        /\ IF r.kind = "ok"
           THEN /\ cw' = [cw EXCEPT ![c].st =
                            IF r.fs = <<>> THEN "done" ELSE "listing"]
                /\ errlog' = errlog
           ELSE /\ cw' = [cw EXCEPT ![c].st = "done"]
                /\ errlog' = errlog \cup {c}
    /\ UNCHANGED <<prime_camera_sn, media_data, cpc, cscript, takes, scenes>>
    /\ UNCHANGED <<dvars, svars, gvars, xvars>>

\* collect_media: the next file of the list; int() of an unparsable "cre"
\* raises and ends the worker, the exception staying in its future
CollectEntry(c) ==
    /\ cpc = "collect"
    /\ cw[c].st = "listing"
    /\ LET k == cw[c].pos + 1
           cre == listing[c].fs[k]
       IN  IF cre = Unparsable
           THEN /\ cw' = [cw EXCEPT ![c].st = "raised"]
                /\ media_data' = media_data
           ELSE /\ cw' = [cw EXCEPT ![c].pos = k,
                                    ![c].st = IF k = Len(listing[c].fs)
                                              THEN "done" ELSE "listing"]
                /\ media_data' = Append(media_data, FileMetadata(c, k, cre))
    /\ UNCHANGED <<prime_camera_sn, listing, errlog, cpc, cscript, takes, scenes>>
    /\ UNCHANGED <<dvars, svars, gvars, xvars>>

\* the with block of the collection is left when every worker has ended
CollectDone ==
    /\ cpc = "collect"
    /\ \A c \in Cams : cw[c].st \in {"done", "raised"}
    /\ cpc' = "collected"
    /\ UNCHANGED <<prime_camera_sn, listing, cw, media_data, errlog, cscript,
                   takes, scenes>>
    /\ UNCHANGED <<dvars, svars, gvars, xvars>>

\* 04.copy_last_to_pc_and_scene_sorting.py after the collection
TakeScript ==
    /\ cpc = "collected"
    /\ cscript' = "04last"
    /\ takes' = TakePolicy(media_data, prime_camera_sn)
    /\ cpc' = "done"
    /\ UNCHANGED <<prime_camera_sn, listing, cw, media_data, errlog, scenes>>
    /\ UNCHANGED <<dvars, svars, gvars, xvars>>

\* 04.copy_to_pc_and_scene_sorting.py after the collection
SceneScript ==
    /\ cpc = "collected"
    /\ cscript' = "04scene"
    /\ scenes' = ScenePolicy(media_data, prime_camera_sn)
    /\ cpc' = "done"
    /\ UNCHANGED <<prime_camera_sn, listing, cw, media_data, errlog, takes>>
    /\ UNCHANGED <<dvars, svars, gvars, xvars>>

NextCopy ==
    \/ \E c \in Cams : CollectRequest(c)
    \/ \E c \in Cams : CollectEntry(c)
    \/ CollectDone
    \/ TakeScript
    \/ SceneScript

SpecCopy == InitCopy /\ [][NextCopy]_vars

-----------------------------------------------------------------------------
(* Fan-out dispatch and stage order: C1 .. C5 *)

Returned == phase = "returned"

Failed(i) == w[i].resp \in {"non200", "connerr", "silent"}

\* C1: the failure of one device's command (timeout, non-200 response,
\* connection error) never aborts the fan-out and never keeps the command from
\* being issued to and completed on every other device: no unit of work is
\* ever cancelled, and when the fan-out returns no exception has escaped it
\* and every device's unit of work has made all its calls and has ended.
C1_FailureIsolated ==
    /\ \A i \in DOMAIN w : w[i].st # "cancelled"
    /\ ~aborted
    /\ Returned =>
          \A i \in DOMAIN w :
              /\ w[i].st \in {"done", "raised"}
              /\ w[i].call = NumCalls(Dispatch)

\* a returned fan-out in which one device failed and another succeeded
C1_Witness ==
    /\ Returned
    /\ \E i, j \in DOMAIN w :
          /\ i # j
          /\ Failed(i)
          /\ w[j].st = "done" /\ w[j].resp = "ok"

\* C2: every fan-out returns even when a device never responds, because each
\* device call carries an explicit timeout that marks the device failed: no
\* unit of work is ever blocked on a silent device without a timeout.
C2_EveryCallTimesOut ==
    \A i \in DOMAIN w : InPool => ~Hung(i)

\* C3: the fan-out returns only after the unit of work of every device has
\* finished or failed; none is queued or running when it returns.
C3_ReturnsAfterAllUnits ==
    Returned => \A i \in DOMAIN w : w[i].st \in {"done", "raised"}

\* the stop fan-out of 03.stop_record.py has returned for a whole fleet
C3_Witness ==
    /\ Returned
    /\ Dispatch = "stop"
    /\ Len(fleet) = NumDevices

\* C4: every fan-out yields exactly one reported outcome (success or error)
\* per command of every device of its input list; no failure is dropped.
C4_CompleteResult ==
    Returned =>
        \A i \in DOMAIN w : Len(w[i].log) = NumCalls(Dispatch)

\* C5: under the orchestrator no child is started while a unit of work of the
\* previous one is in flight, and the units in flight are those of a script
\* of the prefix the loop of main.py is at that it is not through with (the
\* prefixes being gone through in ascending order 01, 02, 03, 04, 05, 06).
C5_StrictStageOrder ==
    mainPc # "standalone" =>
        /\ ~overlap
        /\ UnitsInFlight =>
              /\ idx <= Len(NumberedScripts)
              /\ script \in NumberedScripts[idx] \ ran

\* the copy stage has units in flight, after 01, 02 and 03 have run
C5_Witness ==
    /\ mainPc = "wait04a"
    /\ script = "04last"
    /\ UnitsInFlight

-----------------------------------------------------------------------------
(* Media collection and the take policy: C6 .. C10 *)

Collected == cpc \in {"collected", "done"}

TakeDone == cpc = "done" /\ cscript = "04last"

SceneDone == cpc = "done" /\ cscript = "04scene"

\* the listing of camera c fails: no 200, no connection, or an entry whose
\* creation time cannot be parsed
ListingFails(c) ==
    \/ listing[c].kind # "ok"
    \/ \E k \in DOMAIN listing[c].fs : listing[c].fs[k] = Unparsable

RecordsOf(c) == SelectSeq(media_data, LAMBDA f : f.serial_number = c)

TimesOf(c) == {RecordsOf(c)[i].time : i \in DOMAIN RecordsOf(c)}

Serials == {media_data[i].serial_number : i \in DOMAIN media_data}

\* global_latest: the maximum creation time over all records
GlobalLatest == SetMax({media_data[i].time : i \in DOMAIN media_data})

SetMin(S) == CHOOSE x \in S : \A y \in S : x <= y

\* C6: a camera whose listing fails (non-200, connection error, unparsable
\* entry) contributes no record, its failure is logged, and every file of
\* every other camera is collected.
C6_FailedListingContributesNothing ==
    Collected =>
        \A c \in Cams :
            IF ListingFails(c)
            THEN RecordsOf(c) = <<>> /\ c \in errlog
            ELSE Len(RecordsOf(c)) = Len(listing[c].fs)

\* C7: with global_latest the maximum creation time of all records, the take
\* holds for each camera with records one of its records: one at the camera's
\* smallest distance to global_latest when that distance is at most 5 s, and
\* then no substitution is reported; otherwise one with the camera's newest
\* time, and the substitution is reported.
C7_TakeSelection ==
    TakeDone /\ media_data # <<>> =>
        /\ takes # <<>>
        /\ \A c \in Serials :
             LET dmin == SetMin({Abs(t - GlobalLatest) : t \in TimesOf(c)})
                 files == takes[1].files
             IN  \E k \in DOMAIN files :
                   /\ files[k].serial_number = c
                   /\ \E i \in DOMAIN media_data : media_data[i] = files[k]
                   /\ IF dmin <= Tolerance
                      THEN /\ Abs(files[k].time - GlobalLatest) = dmin
                           /\ c \notin takes[1].substituted
                      ELSE /\ files[k].time = SetMax(TimesOf(c))
                           /\ c \in takes[1].substituted

\* a take with a camera whose newest file is exactly 5 s before global_latest
\* (taken, not reported) next to a camera with files of several times
C7_Witness ==
    /\ TakeDone
    /\ takes # <<>>
    /\ \E c \in Serials :
         /\ SetMax(TimesOf(c)) = GlobalLatest - Tolerance
         /\ c \notin takes[1].substituted
    /\ \E c \in Serials : Cardinality(TimesOf(c)) > 1

OnePerCamera(files) ==
    \A i, j \in DOMAIN files :
        i # j => files[i].serial_number # files[j].serial_number

\* C8 as claimed: the take policy makes exactly one take, with at most one
\* file per camera, for any catalog and any completion order.
C8_ExactlyOneTake ==
    TakeDone =>
        /\ Len(takes) = 1
        /\ \A t \in DOMAIN takes : OnePerCamera(takes[t].files)

\* C8 amended: exactly one take for a catalog with a record, none for an empty
\* catalog, and at most one file per camera in the take.
C8_OneTakeUnlessEmpty ==
    TakeDone =>
        /\ Len(takes) = (IF media_data = <<>> THEN 0 ELSE 1)
        /\ \A t \in DOMAIN takes : OnePerCamera(takes[t].files)

\* one take of all cameras although some camera has several files
C8_Witness ==
    /\ TakeDone
    /\ Len(takes) = 1
    /\ Len(takes[1].files) = NumCams
    /\ Len(media_data) > NumCams

WithinTolerance(t, ref) == Abs(t - ref) <= Tolerance

ScenesWithinTolerance ==
    \A s \in DOMAIN scenes :
        \A k \in DOMAIN scenes[s].files :
            WithinTolerance(scenes[s].files[k].time, scenes[s].files[1].time)

\* C9 as claimed: every member of a take is within 5 s of global_latest and
\* every member of a scene within 5 s of the scene's first member.
C9_AllWithinTolerance ==
    cpc = "done" =>
        /\ \A t \in DOMAIN takes :
             \A k \in DOMAIN takes[t].files :
                 WithinTolerance(takes[t].files[k].time, GlobalLatest)
        /\ ScenesWithinTolerance

\* C9 amended: every member of a scene is within 5 s of the scene's first
\* member, and every member of a take is within 5 s of global_latest unless
\* it is the reported substitution of its camera.
C9_WithinToleranceUnlessSubstituted ==
    cpc = "done" =>
        /\ \A t \in DOMAIN takes :
             \A k \in DOMAIN takes[t].files :
                 \/ WithinTolerance(takes[t].files[k].time, GlobalLatest)
                 \/ takes[t].files[k].serial_number \in takes[t].substituted
        /\ ScenesWithinTolerance

\* a take with a substituted member next to a member inside the window
C9_Witness ==
    /\ TakeDone
    /\ takes # <<>>
    /\ takes[1].substituted # {}
    /\ \E k \in DOMAIN takes[1].files :
         takes[1].files[k].serial_number \notin takes[1].substituted

\* the member of the camera discovered first (the cameras being numbered in
\* discovery order)
EarliestDiscovered(files) ==
    files[CHOOSE k \in DOMAIN files :
            \A j \in DOMAIN files :
                files[k].serial_number <= files[j].serial_number]

HasPrime(files) ==
    \E k \in DOMAIN files : files[k].serial_number = prime_camera_sn

PrimeTimes(files) ==
    {files[k].time : k \in {j \in DOMAIN files :
                              files[j].serial_number = prime_camera_sn}}

\* C10: a take is named after its prime camera's record, else after the member
\* of the earliest-discovered camera; a scene after its earliest prime record,
\* else after its earliest member: the name does not depend on the order in
\* which the workers finish.
C10_NameByPrimeOrEarliestDiscovered ==
    cpc = "done" =>
        /\ \A t \in DOMAIN takes :
             takes[t].name =
                Strftime(IF HasPrime(takes[t].files)
                         THEN SetMin(PrimeTimes(takes[t].files))
                         ELSE EarliestDiscovered(takes[t].files).time)
        /\ \A s \in DOMAIN scenes :
             scenes[s].name[2] =
                Strftime(IF HasPrime(scenes[s].files)
                         THEN SetMin(PrimeTimes(scenes[s].files))
                         ELSE SetMin({scenes[s].files[k].time :
                                        k \in DOMAIN scenes[s].files}))

-----------------------------------------------------------------------------
(* Scene policy: C11 .. C13 *)

\* the reference time of scene k: the time of its first member
Reference(k) == scenes[k].files[1].time

\* the scene a record was put in (0: none)
SceneOf(r) ==
    IF \E k \in DOMAIN scenes : \E m \in DOMAIN scenes[k].files :
            scenes[k].files[m] = r
    THEN CHOOSE k \in DOMAIN scenes : \E m \in DOMAIN scenes[k].files :
            scenes[k].files[m] = r
    ELSE 0

\* C11: the scene policy walks the records in ascending creation time; a
\* record joins the first open scene whose reference time (its first
\* member's time) is at most 5 s away, 5 s itself included, and opens a new
\* scene with itself as reference when there is none.  On the result: the
\* members of a scene are in ascending time, the scenes are in the order of
\* their references, every later member of a scene is within the tolerance of
\* its reference, and no member of a scene is within the tolerance of the
\* reference of a scene opened before.
C11_GreedyBucketing ==
    SceneDone =>
        \A k \in DOMAIN scenes :
            LET fs == scenes[k].files
            IN  /\ fs # <<>>
                /\ \A m \in DOMAIN fs : \A n \in DOMAIN fs :
                       m < n => fs[m].time <= fs[n].time
                /\ \A j \in 1..(k - 1) : Reference(j) <= Reference(k)
                /\ \A m \in DOMAIN fs :
                       /\ Abs(fs[m].time - Reference(k)) <= Tolerance
                       /\ \A j \in 1..(k - 1) :
                              Abs(fs[m].time - Reference(j)) > Tolerance

\* a record exactly 5 s after the reference has joined its scene and a record
\* 6 s after it has opened the next one
C11_Witness ==
    /\ SceneDone
    /\ Len(scenes) = 2
    /\ \E m \in DOMAIN scenes[1].files :
          scenes[1].files[m].time = Reference(1) + Tolerance
    /\ Reference(2) = Reference(1) + Tolerance + 1

\* C12 as claimed: any two records of the catalog whose creation times differ
\* by at most the tolerance are in the same scene.
C12_CloseRecordsShareScene ==
    SceneDone =>
        \A i \in DOMAIN media_data : \A j \in DOMAIN media_data :
            Abs(media_data[i].time - media_data[j].time) <= Tolerance
                => SceneOf(media_data[i]) = SceneOf(media_data[j])

\* C12 amended: a record whose creation time is the reference time of a scene
\* or at most the tolerance after it is in that scene; so two records at most
\* the tolerance apart share a scene when the earlier one is the first member
\* of its scene.
C12_CloseToReferenceShareScene ==
    SceneDone =>
        \A k \in DOMAIN scenes : \A i \in DOMAIN media_data :
            /\ media_data[i].time >= Reference(k)
            /\ media_data[i].time - Reference(k) <= Tolerance
            => SceneOf(media_data[i]) = k

\* a scene with a second member, and a record outside it that is within the
\* tolerance of that member
C12_Witness ==
    /\ SceneDone
    /\ \E k \in DOMAIN scenes :
          /\ Len(scenes[k].files) > 1
          /\ \E i \in DOMAIN media_data :
                /\ SceneOf(media_data[i]) # k
                /\ \E m \in DOMAIN scenes[k].files :
                      Abs(media_data[i].time - scenes[k].files[m].time)
                          <= Tolerance

\* C13: any two records of the catalog whose creation times differ by more
\* than the tolerance are in different scenes.
C13_DistantRecordsInDifferentScenes ==
    SceneDone =>
        \A i \in DOMAIN media_data : \A j \in DOMAIN media_data :
            Abs(media_data[i].time - media_data[j].time) > Tolerance
                => SceneOf(media_data[i]) # SceneOf(media_data[j])

\* the workers appended a later record before an earlier one, and a third
\* record is more than the tolerance away from one of the two
C13_Witness ==
    /\ SceneDone
    /\ \E i \in DOMAIN media_data : \E j \in DOMAIN media_data :
          /\ i < j
          /\ media_data[i].time > media_data[j].time
          /\ media_data[i].time - media_data[j].time <= Tolerance
          /\ \E n \in DOMAIN media_data :
                Abs(media_data[n].time - media_data[j].time) > Tolerance

-----------------------------------------------------------------------------
(* 06.gopro_sync.py and gopro_sync.py: alignment, export, grid preview.    *)
(* Times are in ticks of 1/60 s, which every frame of the rates below is a *)
(* whole number of.                                                        *)

MaxVideos == 3
MaxSources == 10

TicksPerSecond == 60

\* a part of a timecode, or a duration, that int() / float() does not accept
NotInt == -1

\* the timecode tag of the video stream, split at ':' (';' being replaced):
\* <<>> stands for no tag
Timecodes ==
    {<<>>, <<0, 0, 0, 0>>, <<0, 0, 0, 15>>, <<0, 0, 2, 0>>, <<0, 0, 5>>,
     <<NotInt>>, <<0, 0, NotInt>>}

\* r_frame_rate split at '/': <<>> stands for no value
Rates == {<<>>, <<0, 0>>, <<30, 1>>, <<60, 1>>, <<0, 1>>}

\* format.duration: <<>> stands for no value
DurationValues ==
    {<<>>, <<NotInt>>, <<1 * TicksPerSecond>>, <<3 * TicksPerSecond>>,
     <<10 * TicksPerSecond>>}

\* what ffprobe gives for a file; info is FALSE when ffprobe exits non-zero
\* or prints an empty document
Probes ==
    [info : {TRUE}, tc : Timecodes, r : Rates, dur : DurationValues]
        \cup {[info |-> FALSE, tc |-> <<>>, r |-> <<>>, dur |-> <<>>]}

\* what a run of ffmpeg ends with, and what it leaves at the output path
RendererResults ==
    {[rc |-> 0, left |-> "complete"],
     [rc |-> 1, left |-> "partial"],
     [rc |-> 1, left |-> "none"]}

Policies == {"fixed", "dynamic"}

AllInt(parts) == \A i \in DOMAIN parts : parts[i] # NotInt

\* parse_framerate: the rate as <<n, d>>, 30.0 for a missing, "0/0" or
\* unreadable value and for a zero denominator
parse_framerate(r) ==
    IF r = <<>> \/ r = <<0, 0>> THEN <<30, 1>>
    ELSE IF Len(r) # 2 \/ ~AllInt(r) THEN <<30, 1>>
    ELSE IF r[2] # 0 THEN r ELSE <<30, 1>>

\* parse_timecode_to_seconds raises: int() of a part of a three-part
\* timecode (ValueError), or the division by a rate of 0.0
TimecodeRaises(tc, fps) ==
    \/ Len(tc) = 3 /\ ~AllInt(tc)
    \/ Len(tc) \in {3, 4} /\ AllInt(tc) /\ fps[1] = 0

\* parse_timecode_to_seconds where it does not raise, in ticks
parse_timecode_to_seconds(tc, fps) ==
    IF tc = <<>> THEN 0
    ELSE IF Len(tc) = 4 /\ AllInt(tc)
         THEN (tc[1] * 3600 + tc[2] * 60 + tc[3]) * TicksPerSecond
                  + (tc[4] * fps[2] * TicksPerSecond) \div fps[1]
    ELSE IF Len(tc) = 3
         THEN (tc[1] * 3600 + tc[2] * 60 + tc[3]) * TicksPerSecond
    ELSE 0

\* get_video_duration_seconds, in ticks
get_video_duration_seconds(dur) ==
    IF dur = <<>> THEN 0
    ELSE IF dur[1] = NotInt THEN 0
    ELSE dur[1]

\* a timecode or duration that is there but is no number
Unparsable06(p) ==
    \/ p.tc # <<>> /\ ~(Len(p.tc) \in {3, 4} /\ AllInt(p.tc))
    \/ p.dur # <<>> /\ p.dur[1] = NotInt

Max0(x) == IF x > 0 THEN x ELSE 0

\* variant: min(starts.values())
EarliestStart(st) ==
    CHOOSE x \in {st[i] : i \in DOMAIN st} :
        \A y \in {st[i] : i \in DOMAIN st} : x <= y

\* latest_start = max(starts.values())
LatestStart(st) ==
    CHOOSE x \in {st[i] : i \in DOMAIN st} :
        \A y \in {st[i] : i \in DOMAIN st} : x >= y

\* trims = {f: max(0.0, latest_start - starts[f])}
Trims(st) == [i \in DOMAIN st |-> Max0(LatestStart(st) - st[i])]

\* effective = {f: max(0.0, durations[f] - trims[f])}
Effective(st, du) == [i \in DOMAIN st |-> Max0(du[i] - Trims(st)[i])]

\* variant: max(effective.values())
LongestDuration(eff) ==
    IF eff = <<>> THEN 0
    ELSE CHOOSE x \in {eff[i] : i \in DOMAIN eff} :
            \A y \in {eff[i] : i \in DOMAIN eff} : x >= y

\* common_duration = min(effective.values()) if effective else 0.0
CommonDuration(eff) ==
    IF eff = <<>> THEN 0
    ELSE CHOOSE x \in {eff[i] : i \in DOMAIN eff} :
            \A y \in {eff[i] : i \in DOMAIN eff} : x <= y

\* variant: "if common_duration < 0.0"
NoOverlapStrict(c) == c < 0

\* main: "if common_duration <= 0.0"
NoOverlap(c) == c <= 0

\* what a run of ffmpeg for the output called name leaves in the directory
Left(name, res) ==
    IF res.left = "none" THEN {}
    ELSE {[name |-> name, state |-> res.left]}

\* main() of the sync script is entered with the directory of a take
InitSync ==
    /\ spc = "discover"
    /\ nvideos \in 0..MaxVideos
    /\ starts = <<>>
    /\ durations = <<>>
    /\ unparsed = FALSE
    /\ trims = <<>>
    /\ common_duration = 0
    /\ outputs = <<>>
    /\ rendered = <<>>
    /\ outdir = {}
    /\ outcome = "none"
    /\ gpolicy \in Policies
    /\ GridIdle
    /\ DispatchIdle
    /\ ExtrasIdle
    /\ CopyIdle

\* discover_videos: ValueError when the directory holds no video
DiscoverVideos ==
    /\ spc = "discover"
    /\ IF nvideos = 0
       THEN spc' = "done" /\ outcome' = "Error"
       ELSE spc' = "probe" /\ outcome' = outcome
    /\ UNCHANGED <<nvideos, starts, durations, unparsed, trims,
                   common_duration, outputs, rendered, outdir>>
    /\ UNCHANGED <<dvars, cvars, gvars, xvars>>

\* compute_alignment: the loop body for the next file; RuntimeError without
\* metadata, and whatever parse_timecode_to_seconds raises, end main() in its
\* "except Exception"
ProbeFile ==
    /\ spc = "probe"
    /\ Len(starts) < nvideos
    /\ \E p \in Probes :
        LET fps == parse_framerate(p.r)
        IN  IF ~p.info \/ TimecodeRaises(p.tc, fps)
            THEN /\ spc' = "done"
                 /\ outcome' = "Error"
                 /\ UNCHANGED <<starts, durations, unparsed>>
            ELSE /\ starts' = Append(starts, parse_timecode_to_seconds(p.tc, fps))
                 /\ durations' = Append(durations,
                                        get_video_duration_seconds(p.dur))
                 /\ unparsed' = (unparsed \/ Unparsable06(p))
                 /\ UNCHANGED <<spc, outcome>>
    /\ UNCHANGED <<nvideos, trims, common_duration, outputs, rendered, outdir>>
    /\ UNCHANGED <<dvars, cvars, gvars, xvars>>

\* compute_alignment after the loop, and main's test of the common duration
Align ==
    /\ spc = "probe"
    /\ Len(starts) = nvideos
    /\ trims' = Trims(starts)
    /\ common_duration' = CommonDuration(Effective(starts, durations))
    /\ IF NoOverlap(common_duration')
       THEN spc' = "done" /\ outcome' = "NoOverlap"
       ELSE spc' = "export" /\ outcome' = outcome
    /\ UNCHANGED <<nvideos, starts, durations, unparsed, outputs, rendered,
                   outdir>>
    /\ UNCHANGED <<dvars, cvars, gvars, xvars>>

\* export_synced_individuals: ffmpeg for the next file; CalledProcessError
\* is printed and raised again, and ends main() in its "except Exception"
ExportClip ==
    /\ spc = "export"
    /\ Len(outputs) < nvideos
    /\ LET k == Len(outputs) + 1
       IN  /\ rendered' = Append(rendered, [file |-> k, trim |-> trims[k],
                                            duration |-> common_duration])
           /\ \E res \in RendererResults :
                /\ outdir' = outdir \cup Left(<<"sync", k>>, res)
                /\ IF res.rc = 0
                   THEN /\ outputs' = Append(outputs, k)
                        /\ UNCHANGED <<spc, outcome>>
                   ELSE /\ spc' = "done"
                        /\ outcome' = "Error"
                        /\ outputs' = outputs
    /\ UNCHANGED <<nvideos, starts, durations, unparsed, trims, common_duration>>
    /\ UNCHANGED <<dvars, cvars, gvars, xvars>>

\* main: export_grid(synced_files, grid_out)
EnterGrid ==
    /\ spc = "export"
    /\ Len(outputs) = nvideos
    /\ spc' = "grid"
    /\ gpc' = "size"
    /\ gn' = Len(outputs)
    /\ UNCHANGED <<nvideos, starts, durations, unparsed, trims, common_duration,
                   outputs, rendered, outdir, outcome>>
    /\ UNCHANGED <<gpolicy, cols, rows, num_inputs, row_labels>>
    /\ UNCHANGED <<dvars, cvars, xvars>>

\* variant: int(math.sqrt(n))
FloorSqrt(n) == CHOOSE c \in 0..n : c * c <= n /\ (c + 1) * (c + 1) > n

\* math.ceil(math.sqrt(n))
CeilSqrt(n) == CHOOSE c \in 0..n : c * c >= n /\ (c = 0 \/ (c - 1) * (c - 1) < n)

\* math.ceil(a / b)
CeilDiv(a, b) == (a + b - 1) \div b

\* export_grid: cols and rows
GridSize ==
    /\ gpc = "size"
    /\ gn > 0
    /\ IF gpolicy = "fixed"
       THEN cols' = 3 /\ rows' = 3
       ELSE cols' = CeilSqrt(gn) /\ rows' = CeilDiv(gn, CeilSqrt(gn))
    /\ gpc' = "inputs"
    /\ UNCHANGED <<gpolicy, gn, num_inputs, row_labels>>
    /\ UNCHANGED <<dvars, cvars, svars, xvars>>

\* num_black_videos = total_positions - n, 0 in gopro_sync.py
NumBlack == IF gpolicy = "fixed" THEN 9 - gn ELSE 0

\* export_grid: the inputs of the command and their scaling to tile size;
\* input i is labelled [v i], the files being the inputs 0 .. n - 1 and the
\* black fillers the inputs from n on
GridInputs ==
    /\ gpc = "inputs"
    /\ num_inputs' = gn + Max0(NumBlack)
    /\ gpc' = "rows"
    /\ UNCHANGED <<gpolicy, gn, cols, rows, row_labels>>
    /\ UNCHANGED <<dvars, cvars, svars, xvars>>

\* 06.gopro_sync.py: row r takes the labels of its three positions
FixedRow(r) == [c \in 1..cols |-> r * cols + (c - 1)]

\* gopro_sync.py: row r takes the labels start .. end - 1
DynamicRow(r) ==
    LET start == r * cols
        end == IF start + cols < gn THEN start + cols ELSE gn
    IN  [c \in 1..(end - start) |-> start + (c - 1)]

\* export_grid: the hstack of the next row
GridRow ==
    /\ gpc = "rows"
    /\ Len(row_labels) < rows
    /\ row_labels' = Append(row_labels,
                            IF gpolicy = "fixed"
                            THEN FixedRow(Len(row_labels))
                            ELSE DynamicRow(Len(row_labels)))
    /\ UNCHANGED <<gpc, gpolicy, gn, cols, rows, num_inputs>>
    /\ UNCHANGED <<dvars, cvars, svars, xvars>>

\* export_grid: the vstack of the rows, which ends the command
GridStack ==
    /\ gpc = "rows"
    /\ Len(row_labels) = rows
    /\ gpc' = "run"
    /\ UNCHANGED <<gpolicy, gn, cols, rows, num_inputs, row_labels>>
    /\ UNCHANGED <<dvars, cvars, svars, xvars>>

\* export_grid: ffmpeg for the grid; CalledProcessError is printed and
\* raised again, and ends main() in its "except Exception"
GridRun ==
    /\ gpc = "run"
    /\ \E res \in RendererResults :
        /\ outdir' = outdir \cup Left(<<"grid">>, res)
        /\ gpc' = IF res.rc = 0 THEN "returned" ELSE "raised"
        /\ IF spc = "grid"
           THEN /\ spc' = "done"
                /\ outcome' = IF res.rc = 0 THEN "Done" ELSE "Error"
           ELSE UNCHANGED <<spc, outcome>>
    /\ UNCHANGED <<nvideos, starts, durations, unparsed, trims, common_duration,
                   outputs, rendered>>
    /\ UNCHANGED <<gpolicy, gn, cols, rows, num_inputs, row_labels>>
    /\ UNCHANGED <<dvars, cvars, xvars>>

NextGrid ==
    \/ GridSize
    \/ GridInputs
    \/ GridRow
    \/ GridStack
    \/ GridRun

NextSync ==
    \/ DiscoverVideos
    \/ ProbeFile
    \/ Align
    \/ ExportClip
    \/ EnterGrid
    \/ NextGrid

SpecSync == InitSync /\ [][NextSync]_vars

\* export_grid is called with n files
InitGrid ==
    /\ gpc = "size"
    /\ gpolicy \in Policies
    /\ gn \in 1..MaxSources
    /\ cols = 0
    /\ rows = 0
    /\ num_inputs = 0
    /\ row_labels = <<>>
    /\ SyncIdle
    /\ DispatchIdle
    /\ ExtrasIdle
    /\ CopyIdle

SpecGrid == InitGrid /\ [][NextGrid]_vars

-----------------------------------------------------------------------------
(* Alignment and export: C14 .. C18 *)

\* compute_alignment has returned
Aligned == spc \in {"export", "grid", "done"} /\ Len(trims) = nvideos /\ nvideos > 0

StartsOf == {starts[i] : i \in DOMAIN starts}

\* duration(f) - trim(f), cut at 0
EffectiveOf(i) ==
    IF durations[i] - trims[i] > 0 THEN durations[i] - trims[i] ELSE 0

Seconds(n) == n * TicksPerSecond

\* C14: for every non-empty file set compute_alignment returns
\* trim(f) = max(0, latest_start - start(f)), latest_start being the maximum
\* start, and common_duration = the minimum over the files of
\* max(0, duration(f) - trim(f)); starts {0, 2.0, 0.5} with durations
\* {10, 10, 10} give the trims {2.0, 0.0, 1.5} and the common duration 8.0.
C14_TrimsAndCommonDuration ==
    Aligned =>
        /\ \A i \in DOMAIN starts :
             trims[i] = IF SetMax(StartsOf) - starts[i] > 0
                        THEN SetMax(StartsOf) - starts[i] ELSE 0
        /\ common_duration = SetMin({EffectiveOf(i) : i \in DOMAIN starts})
        /\ /\ starts = <<0, Seconds(2), Seconds(1) \div 2>>
           /\ durations = <<Seconds(10), Seconds(10), Seconds(10)>>
           => /\ trims = <<Seconds(2), 0, (Seconds(3)) \div 2>>
              /\ common_duration = Seconds(8)

\* the example of the claim has been aligned
C14_Witness ==
    /\ Aligned
    /\ starts = <<0, Seconds(2), Seconds(1) \div 2>>
    /\ durations = <<Seconds(10), Seconds(10), Seconds(10)>>
    /\ trims = <<Seconds(2), 0, (Seconds(3)) \div 2>>
    /\ common_duration = Seconds(8)

\* C15 as claimed: in every plan compute_alignment returns every trim is >= 0
\* and the common duration is <= duration - trim of every file.
C15_CommonWithinEveryMember ==
    Aligned =>
        \A i \in DOMAIN starts :
            /\ trims[i] >= 0
            /\ common_duration <= durations[i] - trims[i]

\* C15 amended: every trim is >= 0, the common duration is >= 0 and
\* <= max(0, duration - trim) of every file; it is <= duration - trim of every
\* file whenever it is > 0, and is 0 when some file is shorter than its trim.
C15_CommonWithinEveryEffective ==
    Aligned =>
        /\ common_duration >= 0
        /\ \A i \in DOMAIN starts :
            /\ trims[i] >= 0
            /\ common_duration <= EffectiveOf(i)
            /\ \/ common_duration <= durations[i] - trims[i]
               \/ common_duration = 0 /\ durations[i] < trims[i]

\* a plan with a positive common duration that one trimmed file bounds and
\* another file exceeds
C15_Witness ==
    /\ Aligned
    /\ common_duration > 0
    /\ \E i \in DOMAIN starts :
          trims[i] > 0 /\ common_duration = durations[i] - trims[i]
    /\ \E i \in DOMAIN starts : common_duration < durations[i] - trims[i]

\* C16: when the common duration is <= 0 the sync script ends with the
\* "no overlapping region" message: the renderer is run neither for a clip
\* nor for the grid, and nothing is written to the output directory.
C16_NoOverlapExportsNothing ==
    Aligned /\ common_duration <= 0 =>
        /\ spc = "done"
        /\ outcome = "NoOverlap"
        /\ rendered = <<>>
        /\ outputs = <<>>
        /\ outdir = {}
        /\ gpc = "idle"

\* durations {3, 1} with starts {0, 5}
C16_Witness ==
    /\ Aligned
    /\ starts = <<0, Seconds(5)>>
    /\ durations = <<Seconds(3), Seconds(1)>>
    /\ common_duration = 0
    /\ outcome = "NoOverlap"

\* C17: when the timecode or the duration of a file cannot be parsed,
\* alignment fails: the take gets no trim plan that is exported, the renderer
\* is never run for it, the value never being replaced by a default.
C17_UnparsableFailsTheTake ==
    unparsed =>
        /\ spc \notin {"export", "grid"}
        /\ rendered = <<>>
        /\ outcome # "Done"

\* C18: when the renderer exits non-zero for a clip or for the grid, no
\* partial file is left in the output directory.
C18_NoPartialOutputAfterRenderFailure ==
    outcome = "Error" /\ rendered # <<>> =>
        \A o \in outdir : o.state = "complete"

-----------------------------------------------------------------------------
(* Grid preview: C19, C20 *)

\* the command of export_grid is complete
GridBuilt == gpc \in {"run", "returned", "raised"}

\* the labels stacked in some row
Tiles ==
    {<<r, c>> : r \in DOMAIN row_labels, c \in 1..cols} \cap
        {t \in (1..rows) \X (1..cols) : t[2] \in DOMAIN row_labels[t[1]]}

\* the tiles source i (input i, counted from 0) is stacked in
TilesOf(i) == {t \in Tiles : row_labels[t[1]][t[2]] = i}

\* C19: the dynamic grid has cols = ceil(sqrt(n)) columns and
\* rows = ceil(n / cols) rows; it places exactly n tiles, the sources in
\* their order row by row, every row but the last being full and the last
\* having at least one tile; n = 4 gives 2 x 2, n = 5 gives 3 columns by 2
\* rows with 2 tiles in the second row.
C19_DynamicGrid ==
    gpolicy = "dynamic" /\ GridBuilt =>
        /\ cols * cols >= gn
        /\ (cols - 1) * (cols - 1) < gn
        /\ rows * cols >= gn
        /\ (rows - 1) * cols < gn
        /\ Len(row_labels) = rows
        /\ \A r \in 1..(rows - 1) : Len(row_labels[r]) = cols
        /\ Len(row_labels[rows]) \in 1..cols
        /\ Cardinality(Tiles) = gn
        /\ num_inputs = gn
        /\ \A t \in Tiles : row_labels[t[1]][t[2]] = (t[1] - 1) * cols + t[2] - 1
        /\ gn = 4 => cols = 2 /\ rows = 2
        /\ gn = 5 => cols = 3 /\ rows = 2 /\ Len(row_labels[2]) = 2

\* five sources laid out by the dynamic policy
C19_Witness ==
    /\ gpolicy = "dynamic"
    /\ GridBuilt
    /\ gn = 5
    /\ cols = 3
    /\ Len(row_labels) = 2
    /\ Len(row_labels[2]) = 2

\* C20: for every n >= 1 the grid has at least n tiles and every source is
\* in exactly one tile; in the fixed 3 x 3 grid the 9 - n other tiles are
\* black fillers.
C20_EverySourceHasATile ==
    GridBuilt =>
        /\ Cardinality(Tiles) >= gn
        /\ \A i \in 0..(gn - 1) : Cardinality(TilesOf(i)) = 1
        /\ gpolicy = "fixed" =>
              /\ Cardinality(Tiles) = 9
              /\ Cardinality({t \in Tiles : row_labels[t[1]][t[2]] >= gn})
                     = 9 - gn
              /\ \A t \in Tiles : row_labels[t[1]][t[2]] < num_inputs

-----------------------------------------------------------------------------
(* The UDP signal of 02.sync_and_record_opengo.py (send_timecode), of      *)
(* 03.stop_record_all.py (send_stop_signal) and of send_timecode.py         *)

Senders == {"02", "03all", "send_timecode"}

\* range(5)
Repeat == 5

\* the first word of the payload
Word(s) == IF s = "03all" THEN "STOP" ELSE "TC"

\* the address the datagrams go to: the defaults of the two functions, or the
\* --b-ip and --port arguments of send_timecode.py
Peer(s) ==
    IF s = "send_timecode" THEN <<"b_ip", "port">>
    ELSE <<"192.168.100.66", 9998>>

\* f"TC {tc} {time.time_ns()}": the word and the time it was built at
BuildPayload == <<Word(sender), clock>>

\* a loop that would build the payload anew for every datagram
FreshPayload == BuildPayload

\* the payload of the next datagram: the one built before the loop
DatagramPayload == payload

\* a sender is entered; the socket is made
InitSignal ==
    /\ signalPc = "build"
    /\ sender \in Senders
    /\ clock \in 0..1
    /\ payload = <<>>
    /\ sent = <<>>
    /\ delivered = <<>>
    /\ DispatchIdle
    /\ CopyIdle
    /\ SyncGridIdle
    /\ ListenerIdle
    /\ RunIdle
    /\ TakeCopyIdle

\* payload = f"..." before the loop
SignalBuild ==
    /\ signalPc = "build"
    /\ payload' = BuildPayload
    /\ signalPc' = "send"
    /\ UNCHANGED <<sender, clock, sent, delivered>>
    /\ UNCHANGED <<dvars, cvars, svars, gvars, zvars, rvars, kvars>>

\* sock.sendto(payload, (target_ip, port)); the network delivers the datagram
\* or loses it, and the sender is told neither
SendTo ==
    /\ signalPc = "send"
    /\ Len(sent) < Repeat
    /\ sent' = Append(sent, [payload |-> DatagramPayload, to |-> Peer(sender)])
    /\ \E d \in BOOLEAN : delivered' = Append(delivered, d)
    /\ signalPc' = "sleep"
    /\ UNCHANGED <<sender, clock, payload>>
    /\ UNCHANGED <<dvars, cvars, svars, gvars, zvars, rvars, kvars>>

\* time.sleep(0.01), then the next round of the loop
SignalSleep ==
    /\ signalPc = "sleep"
    /\ clock' = clock + 1
    /\ signalPc' = "send"
    /\ UNCHANGED <<sender, payload, sent, delivered>>
    /\ UNCHANGED <<dvars, cvars, svars, gvars, zvars, rvars, kvars>>

\* the loop is through: the function prints and returns
SignalReturn ==
    /\ signalPc = "send"
    /\ Len(sent) >= Repeat
    /\ signalPc' = "done"
    /\ UNCHANGED <<sender, clock, payload, sent, delivered>>
    /\ UNCHANGED <<dvars, cvars, svars, gvars, zvars, rvars, kvars>>

NextSignal ==
    \/ SignalBuild
    \/ SendTo
    \/ SignalSleep
    \/ SignalReturn

SpecSignal == InitSignal /\ [][NextSignal]_vars

-----------------------------------------------------------------------------
(* Signal: C21 *)

\* C21: a timecode or stop signal is exactly 5 datagrams with one and the same
\* payload, all to the configured peer: never a sixth, every datagram equal to
\* the first, and the sender returns after the fifth whatever the network did
\* with them (it waits for no answer).
C21_FiveIdenticalDatagrams ==
    /\ Len(sent) <= 5
    /\ \A i \in DOMAIN sent :
        /\ sent[i].payload = sent[1].payload
        /\ sent[i].payload[1] = Word(sender)
        /\ sent[i].to = Peer(sender)
    /\ signalPc = "done" => Len(sent) = 5

\* the stop signal was sent and returned although no datagram was delivered
C21_Witness ==
    /\ signalPc = "done"
    /\ sender = "03all"
    /\ Len(sent) = 5
    /\ \A i \in DOMAIN delivered : ~delivered[i]

-----------------------------------------------------------------------------
(* GoProListener and discover_gopro_devices of 01.goprolist_and_start_usb.py *)

\* most callbacks the listener gets in one discovery window
MaxCallbacks == 3

\* the addresses a service is announced with
Ips == 1..2

\* get_service_info gave None
NoInfo == 0

\* discover_gopro_devices: a fresh listener, the browser is started
InitListener ==
    /\ browsePc = "browsing"
    /\ devices = <<>>
    /\ announced = {}
    /\ callbacks = 0
    /\ DispatchIdle
    /\ CopyIdle
    /\ SyncGridIdle
    /\ SignalIdle
    /\ RunIdle
    /\ TakeCopyIdle

\* add_service(name): the browser saw a service appear; the record is appended
\* when get_service_info gives an answer, and nothing is looked up in devices
AddService(name) ==
    /\ browsePc = "browsing"
    /\ callbacks < MaxCallbacks
    /\ name \notin announced
    /\ announced' = announced \cup {name}
    /\ callbacks' = callbacks + 1
    /\ \E info \in {NoInfo} \cup Ips :
        devices' = IF info = NoInfo THEN devices
                   ELSE Append(devices, [name |-> name, ip |-> info])
    /\ UNCHANGED browsePc
    /\ UNCHANGED <<dvars, cvars, svars, gvars, uvars, rvars, kvars>>

\* remove_service(name): the browser saw the service go; only a log line
RemoveService(name) ==
    /\ browsePc = "browsing"
    /\ callbacks < MaxCallbacks
    /\ name \in announced
    /\ announced' = announced \ {name}
    /\ callbacks' = callbacks + 1
    /\ UNCHANGED <<browsePc, devices>>
    /\ UNCHANGED <<dvars, cvars, svars, gvars, uvars, rvars, kvars>>

\* the 5 seconds are over: zeroconf.close(), return listener.devices
CloseBrowser ==
    /\ browsePc = "browsing"
    /\ browsePc' = "closed"
    /\ UNCHANGED <<devices, announced, callbacks>>
    /\ UNCHANGED <<dvars, cvars, svars, gvars, uvars, rvars, kvars>>

NextListener ==
    \/ \E name \in Devices : AddService(name)
    \/ \E name \in Devices : RemoveService(name)
    \/ CloseBrowser

SpecListener == InitListener /\ [][NextListener]_vars

-----------------------------------------------------------------------------
(* Discovery: C22 *)

\* C22: the list discovery returns holds no device name twice, whatever add
\* and remove callbacks came in the window.
C22_UniqueDeviceIds ==
    browsePc = "closed" =>
        \A i, j \in DOMAIN devices :
            i # j => devices[i].name # devices[j].name

-----------------------------------------------------------------------------
(* Empty fleet and USB reset: C23, C24 *)

\* the step in which a script's discovery came back with no device
EmptyDiscoveryStep ==
    /\ phase = "devices"
    /\ ~UsesCache(Dispatch)
    /\ phase' # "pool"
    /\ <<phase', dno'>> # <<phase, dno>>

\* C23: a discovery that finds no device is not fatal: that step queues no
\* unit of work and issues no call, no exception leaves the function, and the
\* script goes on to its next function or exits with code 0.
C23_EmptyFleetIsNotFatal ==
    [][EmptyDiscoveryStep =>
        /\ w' = w
        /\ fleet' = fleet
        /\ ~aborted'
        /\ \/ phase' = "devices" /\ dno' = dno + 1
           \/ phase' = "exited" /\ rc' = 0]_vars

\* 01 under the orchestrator found no device: it has exited with code 0, has
\* no unit of work and wrote no cache
C23_Witness ==
    /\ script = "01"
    /\ mainPc = "waitdef"
    /\ phase = "exited"
    /\ rc = 0
    /\ fleet = <<>>
    /\ w = <<>>
    /\ ~cache.exists


\* the fan-out of reset_and_enable_usb_control is under way or has returned
UsbReset == script = "01" /\ phase \in {"pool", "returned"}

-----------------------------------------------------------------------------
(* One run of main.py, script by script: which devices each script sends   *)
(* its command to, and which Take_ directory the sync stage is given.      *)
(* Every script is one step here; its fan-out is the subject of Spec.      *)

AllScripts == UNION {NumberedScripts[i] : i \in DOMAIN NumberedScripts}

DevicesOf(f) == {f[i] : i \in DOMAIN f}

\* the device lists of this model: the order of a list plays no part in which
\* devices get a command, so one order stands for all
RunFleets == {f \in Fleets : \A i, j \in DOMAIN f : i < j => f[i] < f[j]}

\* modification time of a directory made or changed in this run
Now == 3

\* the Take_ directories earlier runs left in the output path: none, one, or
\* two, each with or without its videos subdirectory
InitialDirs ==
    {{}}
    \cup {{[name |-> "Take_A", videos |-> v, mtime |-> 1, made |-> FALSE]} :
            v \in BOOLEAN}
    \cup {{[name |-> "Take_A", videos |-> v, mtime |-> 1, made |-> FALSE],
           [name |-> "Take_B", videos |-> u, mtime |-> 2, made |-> FALSE]} :
            v \in BOOLEAN, u \in BOOLEAN}

Names(ds) == {d.name : d \in ds}

\* take_folder / "videos" with mkdir(parents=True, exist_ok=True): a folder
\* of a new name, or the folder of that name an earlier run made
MakeTake(ds, n) ==
    IF n \in Names(ds)
    THEN {IF d.name = n
          THEN [d EXCEPT !.videos = TRUE,
                         !.mtime = IF d.videos THEN @ ELSE Now]
          ELSE d : d \in ds}
    ELSE ds \cup {[name |-> n, videos |-> TRUE, mtime |-> Now, made |-> TRUE]}

\* variant: the first Take_ directory listed, whether it was there before
DetectAnyTake(existing, ds, prev) ==
    IF ds = {} THEN prev
    ELSE (CHOOSE d \in ds : \A e \in ds : d.mtime <= e.mtime).name

\* main.py after a 04 script: the Take_ directory that was not there before
DetectNewTake(existing, ds, prev) ==
    LET fresh == {d \in ds : d.name \notin existing}
    IN  IF fresh = {} THEN prev ELSE (CHOOSE d \in fresh : TRUE).name

\* take_dirs.sort(key=st_mtime, reverse=True)[0]
LatestTake(ds) ==
    IF ds = {} THEN "none"
    ELSE (CHOOSE d \in ds : \A e \in ds : e.mtime <= d.mtime).name

\* video_dir.exists() and video_dir.is_dir()
HasVideos(n) == \E d \in dirs : d.name = n /\ d.videos

\* run_script
Ran(s) == runs' = [runs EXCEPT ![s] = @ + 1]

\* 01: discovery; a non-empty list is written to camera_cache.json
Effect01 ==
    /\ \E f \in RunFleets :
        cache' = IF f # <<>> THEN [exists |-> TRUE, devices |-> f] ELSE cache
    /\ UNCHANGED <<startedTo, stoppedTo, downloaded, deletedOn, dirs>>

\* 02: its own discovery; start goes to every device found
Effect02 ==
    /\ \E f \in RunFleets : startedTo' = startedTo \cup DevicesOf(f)
    /\ UNCHANGED <<cache, stoppedTo, downloaded, deletedOn, dirs>>

\* 03.*: stop goes to every device of camera_cache.json; without the file
\* the script exits
Effect03 ==
    /\ stoppedTo' = IF cache.exists
                    THEN stoppedTo \cup DevicesOf(cache.devices)
                    ELSE stoppedTo
    /\ UNCHANGED <<cache, startedTo, downloaded, deletedOn, dirs>>

\* 05: its own discovery; delete/all goes to every device found
Effect05 ==
    /\ \E f \in RunFleets : deletedOn' = deletedOn \cup DevicesOf(f)
    /\ UNCHANGED <<cache, startedTo, stoppedTo, downloaded, dirs>>

Effect(s) ==
    CASE s = "01" -> Effect01
      [] s = "02" -> Effect02
      [] s \in {"03", "03all"} -> Effect03
      [] s = "05" -> Effect05

\* the variables of Spec that this model leaves alone
childvars == <<takeOld, script, hasArgs, phase, dno, fleet, w, cur, aborted,
               rc, created, overlap>>

\* main.py before its loop: a cache and Take_ directories of earlier runs
InitRun ==
    /\ mainPc = "loop"
    /\ idx = 1
    /\ ran = {}
    /\ take_base_path = "none"
    /\ takeOld = FALSE
    /\ cache \in {NoCache} \cup {[exists |-> TRUE, devices |-> f] :
                                    f \in RunFleets \ {<<>>}}
    /\ InitChild("none", "none")
    /\ runs = [s \in AllScripts |-> 0]
    /\ startedTo = {}
    /\ stoppedTo = {}
    /\ downloaded = {}
    /\ deletedOn = {}
    /\ dirs \in InitialDirs
    /\ syncedOn = "none"
    /\ CopyIdle
    /\ SyncGridIdle
    /\ SignalIdle
    /\ ListenerIdle
    /\ TakeCopyIdle

\* name.startswith("02"): run_script
Run02 ==
    /\ \E s \in {"02"} :
        /\ AtScript(s, {2})
        /\ Ran(s)
        /\ Effect(s)
    /\ mainPc' = "ran02"
    /\ UNCHANGED <<idx, ran, take_base_path, syncedOn>>
    /\ UNCHANGED <<childvars, cvars, svars, gvars, uvars, zvars, kvars>>

\* time.sleep(args.duration); no continue follows
Sleep02 ==
    /\ mainPc = "ran02"
    /\ mainPc' = "slept"
    /\ UNCHANGED <<idx, ran, take_base_path, cache, rvars>>
    /\ UNCHANGED <<childvars, cvars, svars, gvars, uvars, zvars, kvars>>

\* "Default: just run": the scripts no branch has taken out of the loop body,
\* and 02 after its sleep
RunDefault ==
    /\ \E s \in {"01", "02", "03", "03all", "05"} :
        /\ \/ AtScript(s, {1, 3, 5})
           \/ mainPc = "slept" /\ s \in NumberedScripts[idx]
        /\ Ran(s)
        /\ Effect(s)
        /\ Advance(s)
    /\ mainPc' = "loop"
    /\ UNCHANGED <<take_base_path, syncedOn>>
    /\ UNCHANGED <<childvars, cvars, svars, gvars, uvars, zvars, kvars>>

\* name.startswith("04"): existing_dirs, try_with_variants, and the search for
\* a new Take_ directory. The script finds a fleet, downloads the files of
\* some of its devices, and ends with code 0 or 1; after a code other than 0
\* it is run again without argument, prints its usage and exits.
\* 04.copy_last makes a take folder when it has a file to copy.
Run04 ==
    /\ \E s \in {"04last", "04scene"} :
        /\ AtScript(s, {4})
        /\ \E f \in RunFleets, r \in {0, 1} :
           \E got \in SUBSET DevicesOf(f),
              n \in {"none", "Take_N"} \cup Names(dirs) :
            /\ f = <<>> => r = 0
            /\ s = "04scene" => n = "none"
            /\ s = "04last" /\ got # {} => n # "none"
            /\ f = <<>> => n = "none"
            /\ runs' = [runs EXCEPT ![s] = IF r = 0 THEN @ + 1 ELSE @ + 2]
            /\ downloaded' = downloaded \cup got
            /\ dirs' = IF n = "none" THEN dirs ELSE MakeTake(dirs, n)
        /\ take_base_path' = DetectNewTake(Names(dirs), dirs', take_base_path)
        /\ Advance(s)
    /\ UNCHANGED <<mainPc, cache, startedTo, stoppedTo, deletedOn, syncedOn>>
    /\ UNCHANGED <<childvars, cvars, svars, gvars, uvars, zvars, kvars>>

\* name.startswith("06"): the take found after 04, else the latest Take_
\* directory; the script is run on its videos directory when there is one
Run06 ==
    /\ \E s \in {"06"} :
        /\ AtScript(s, {6})
        /\ LET t == IF take_base_path = "none"
                    THEN LatestTake(dirs) ELSE take_base_path
           IN  /\ take_base_path' = t
               /\ IF t # "none" /\ HasVideos(t)
                  THEN Ran(s) /\ syncedOn' = t
                  ELSE UNCHANGED <<runs, syncedOn>>
        /\ Advance(s)
    /\ UNCHANGED <<mainPc, cache, startedTo, stoppedTo, downloaded, deletedOn,
                   dirs>>
    /\ UNCHANGED <<childvars, cvars, svars, gvars, uvars, zvars, kvars>>

\* name.startswith("99"): skipped
Skip99 ==
    /\ \E s \in {"99"} :
        /\ AtScript(s, {99})
        /\ Advance(s)
    /\ UNCHANGED <<mainPc, take_base_path, cache, rvars>>
    /\ UNCHANGED <<childvars, cvars, svars, gvars, uvars, zvars, kvars>>

\* "Orchestration complete."
RunFinish ==
    /\ mainPc = "loop"
    /\ idx > Len(NumberedScripts)
    /\ mainPc' = "done"
    /\ UNCHANGED <<idx, ran, take_base_path, cache, rvars>>
    /\ UNCHANGED <<childvars, cvars, svars, gvars, uvars, zvars, kvars>>

NextRun ==
    \/ Run02
    \/ Sleep02
    \/ RunDefault
    \/ Run04
    \/ Run06
    \/ Skip99
    \/ RunFinish

SpecRun == InitRun /\ [][NextRun]_vars

-----------------------------------------------------------------------------
(* The orchestrated run: C25, C26, C27, C30 *)

\* C25: when the stop stage is through, every camera that 02 sent the start
\* command to has been sent the stop command by 03.
C25_StartedCamerasAreStopped ==
    idx > 3 => startedTo \subseteq stoppedTo

\* C26: the delete-all command of 05 goes only to cameras whose file a 04
\* script has downloaded with success.
C26_DeleteOnlyAfterDownload ==
    deletedOn \subseteq downloaded

\* C27: no script is run more than once (a 04 script at most a second time,
\* after its first attempt failed), and when a stop script runs the recorder
\* 02 has been run exactly once.
C27_EachScriptRunOnce ==
    /\ \A s \in AllScripts : runs[s] <= IF Prefix(s) = 4 THEN 2 ELSE 1
    /\ runs["03"] + runs["03all"] > 0 => runs["02"] = 1

\* the Take_ directories this run's copy stage created
Made == {d \in dirs : d.made}

\* C30: 06 is run only on a Take_ directory that has a videos subdirectory:
\* the one this run's 04 created, or, when this run created none, the one
\* modified last; and it is not run at all when no Take_ directory has a
\* videos subdirectory.
C30_SyncOnThisRunsTake ==
    /\ syncedOn # "none" =>
        /\ HasVideos(syncedOn)
        /\ Made # {} => syncedOn \in Names(Made)
        /\ Made = {} =>
            \E d \in dirs :
                /\ d.name = syncedOn
                /\ \A e \in dirs : e.mtime <= d.mtime
    /\ mainPc = "done" /\ (\A d \in dirs : ~d.videos) => syncedOn = "none"

\* 06 was run on the take this run created although an older take with
\* videos was there
C30_Witness ==
    /\ mainPc = "done"
    /\ syncedOn = "Take_N"
    /\ \E d \in dirs : ~d.made /\ d.videos

\* this run created no take: 06 was run on the later one of two old takes
C30_WitnessFallback ==
    /\ mainPc = "done"
    /\ Made = {}
    /\ syncedOn = "Take_B"

-----------------------------------------------------------------------------
(* The copy loop of 04.copy_last_to_pc_and_scene_sorting.py: one selected  *)
(* file per camera is downloaded to videos/cam_<suffix><extension>         *)

\* serial numbers, as strings of characters: two that end alike, one that
\* ends otherwise, and one shorter than 4 characters
SerialNumbers ==
    {<<"A", "0", "0", "0", "7">>, <<"B", "0", "0", "0", "7">>,
     <<"A", "0", "0", "0", "8">>, <<"C", "7">>}

\* Path(file['name']).suffix
Extensions == {".MP4", ".LRV"}

\* file['serial_number'][-4:] if len(file['serial_number']) >= 4 else
\* file['serial_number']
SerialSuffix(sn) ==
    IF Len(sn) >= 4 THEN SubSeq(sn, Len(sn) - 3, Len(sn)) ELSE sn

\* videos_folder / f"cam_{serial_suffix}{file_extension}"
DestinationFile(file) == <<"cam_", SerialSuffix(file.serial_number), file.ext>>

\* what a download can end with: the whole file is written; a status other
\* than 200 or a failed request leaves no file; a stream that breaks leaves
\* the part that was written
DownloadResults == {"ok", "non200", "exception", "broken"}

\* take_files: one file for each of up to NumCams cameras
InitTakeCopy ==
    /\ tpc = "copy"
    /\ take_files \in
        {s \in UNION {[1..n -> [serial_number : SerialNumbers,
                                ext : Extensions]] : n \in 1..NumCams} :
            \A i, j \in DOMAIN s :
                i # j => s[i].serial_number # s[j].serial_number}
    /\ results = <<>>
    /\ written = {}
    /\ DispatchIdle
    /\ CopyIdle
    /\ SyncGridIdle
    /\ SignalIdle
    /\ ListenerIdle
    /\ RunIdle

\* one round of "for file in take_files": open(destination_file, "wb")
\* replaces whatever is at that path
CopyTakeFile ==
    /\ tpc = "copy"
    /\ Len(results) < Len(take_files)
    /\ LET file == take_files[Len(results) + 1]
           path == DestinationFile(file)
       IN  \E r \in DownloadResults :
            /\ results' = Append(results, r)
            /\ written' =
                IF r \in {"ok", "broken"}
                THEN {x \in written : x.path # path}
                     \cup {[path |-> path, from |-> file.serial_number,
                            whole |-> (r = "ok")]}
                ELSE written
    /\ UNCHANGED <<tpc, take_files>>
    /\ UNCHANGED <<dvars, cvars, svars, gvars, uvars, zvars, rvars>>

\* "All files copied successfully"
CopyTakeDone ==
    /\ tpc = "copy"
    /\ Len(results) = Len(take_files)
    /\ tpc' = "done"
    /\ UNCHANGED <<take_files, results, written>>
    /\ UNCHANGED <<dvars, cvars, svars, gvars, uvars, zvars, rvars>>

NextTakeCopy ==
    \/ CopyTakeFile
    \/ CopyTakeDone

SpecTakeCopy == InitTakeCopy /\ [][NextTakeCopy]_vars

-----------------------------------------------------------------------------
(* Scene partition and destination paths: C28, C29 *)

\* the places (scene, position) at which record r is filed
Places(r) ==
    {p \in UNION {{<<k, m>> : m \in DOMAIN scenes[k].files} :
                    k \in DOMAIN scenes} :
        scenes[p[1]].files[p[2]] = r}

RECURSIVE TotalFiles(_)
TotalFiles(k) ==
    IF k = 0 THEN 0 ELSE Len(scenes[k].files) + TotalFiles(k - 1)

\* C28: the scenes partition the catalog: every record of media_data is filed
\* at exactly one place, no scene is empty, and the scenes hold as many files
\* as media_data has records.
C28_ScenesPartitionCatalog ==
    SceneDone =>
        /\ \A i \in DOMAIN media_data :
            Cardinality(Places(media_data[i])) = 1
        /\ \A k \in DOMAIN scenes : scenes[k].files # <<>>
        /\ TotalFiles(Len(scenes)) = Len(media_data)

\* three records in two scenes
C28_Witness ==
    /\ SceneDone
    /\ Len(media_data) = 3
    /\ Len(scenes) = 2


\* C29: the files of two different cameras go to two different paths, and a
\* file that was downloaded whole is still in the videos folder when the loop
\* is through: no camera's file has replaced another's.
C29_NoCameraOverwritesAnother ==
    /\ \A i, j \in DOMAIN results :
        i # j => DestinationFile(take_files[i]) # DestinationFile(take_files[j])
    /\ tpc = "done" =>
        \A i \in DOMAIN results :
            results[i] = "ok" =>
                \E x \in written :
                    /\ x.from = take_files[i].serial_number
                    /\ x.whole

====
